---- MODULE Spec2Model ----
(***************************************************************************)
(* Model of the next-intl message extractor's merge engine                 *)
(* (crates/cli/src/messages.rs), of its watch mode                         *)
(* (crates/cli/src/watch.rs), of the syntax tree visitor that extracts     *)
(* the translation keys of a file (crates/resolver/src/visitor.rs) and of  *)
(* the labels-file merger's event handler (crates/cli_old/src/watch.rs).   *)
(*                                                                         *)
(* Strings.  A Rust String is modelled as the sequence of its tokens,      *)
(* where the token "." is the dot character and every other token is a    *)
(* dot-free piece of text: "parent.child" is <<"parent", ".", "child">>.   *)
(* str.split('.') and format!("{}.{}", p, k) are computed on that          *)
(* representation.  File paths are never split by the code and are kept    *)
(* as plain strings.                                                       *)
(***************************************************************************)
EXTENDS Integers, Sequences, FiniteSets, TLC

VARIABLES
    message_handler,   \* the MessageHandler: source_messages, extracted_messages, conflicts
    output,            \* content of the file at output_path
    tracked,           \* path -> pairs of the latest successful extraction of a path not removed since
    last,              \* the call or event handled by the latest step, with its arguments
                       \* (the visit of a node: the visit_ method only)
    visitor,           \* the TranslationFunctionVisitor: translation_functions, current_scope
    open,              \* the function nodes being visited, innermost last, each with the
                       \* scope stack at its entry
    declared,          \* translation function key -> names of the functions its latest
                       \* declaration is nested in
    rx,                \* the channel of watch: the results sent and not yet received
    pc,                \* where the thread that called watch (or the labels merger) is
    disk,              \* the watched files: path -> what is at that path
    sent,              \* number of results the watcher callback has sent
    GLOBAL_FILE_MAP    \* the labels merger's map: component name -> FileMap

vars == <<message_handler, output, tracked, last, visitor, open, declared,
          rx, pc, disk, sent, GLOBAL_FILE_MAP>>

\* What only the watch loop and the labels merger use
loop_vars == <<rx, pc, disk, sent, GLOBAL_FILE_MAP>>

\* Neither watch nor the labels merger is running
not_watching ==
    /\ rx = <<>>
    /\ pc = "not_watching"
    /\ disk = <<>>
    /\ sent = 0
    /\ GLOBAL_FILE_MAP = <<>>

-----------------------------------------------------------------------------
(* Bounds and input alphabets *)

MaxConflicts == 2      \* calls are not taken once they could grow conflicts beyond this

DOT == "."

\* The t("key") usages the source files can hold, as <<namespace, key>>:
\* "a"/"b" is the slot of the namespace "a.b"
Usages == { << <<"a">>, <<"k">> >>,
            << <<"a">>, <<"b">> >>,
            << <<"a", DOT, "b">>, <<"k">> >> }
Namespaces == { u[1] : u \in Usages }
Keys == { u[2] : u \in Usages }
Files == { "A.tsx", "B.tsx" }

-----------------------------------------------------------------------------
(* String operations *)

\* str::split('.'): the pieces between the dots, in order ("" splits to [""])
RECURSIVE split(_)
split(s) ==
    IF \A i \in 1..Len(s) : s[i] # DOT
    THEN << s >>
    ELSE LET i == CHOOSE n \in 1..Len(s) :
                      s[n] = DOT /\ \A j \in 1..(n - 1) : s[j] # DOT
         IN  << SubSeq(s, 1, i - 1) >> \o split(SubSeq(s, i + 1, Len(s)))

\* format!("{}.{}", p, key)
format_dot(p, key) == p \o << DOT >> \o key

-----------------------------------------------------------------------------
(* Data types *)

\* Either<MessageInfo, Box<MessageMap>>
Left(file_path) == [tag |-> "Left", info |-> [value |-> <<>>, file_path |-> file_path]]
Right(messages) == [tag |-> "Right", map |-> [messages |-> messages]]

\* MessageMap::default().messages and serde_json Map::new(): the empty map
EmptyMap == <<>>

\* HashMap::insert / Map::insert: the entry for k is set or replaced
insert(m, k, v) == [x \in (DOMAIN m) \cup {k} |-> IF x = k THEN v ELSE m[x]]

\* serde_json::Value, the two shapes a catalog holds
String(s) == [tag |-> "String", s |-> s]
Object(m) == [tag |-> "Object", map |-> m]

\* Option<T>
None == [tag |-> "None"]
Some(v) == [tag |-> "Some", v |-> v]

NamespaceConflict(namespace, key, files) ==
    [namespace |-> namespace, key |-> key, files |-> files]

-----------------------------------------------------------------------------
(* Vocabulary of the properties: paths into the trie and into a catalog *)

\* The segments of a dotted namespace, each as a string of its own
segments(namespace) ==
    LET pieces == SelectSeq(namespace, LAMBDA t : t # DOT)
    IN  [i \in 1..Len(pieces) |-> << pieces[i] >>]

\* The nested path of the leaf namespace.key
leaf_path(namespace, key) == segments(namespace) \o << key >>

\* The trie node at a path of map keys, None when the path leaves the trie
RECURSIVE slot(_, _)
slot(messages, path) ==
    IF Head(path) \notin DOMAIN messages THEN None
    ELSE IF Len(path) = 1 THEN Some(messages[Head(path)])
    ELSE IF messages[Head(path)].tag = "Right"
    THEN slot(messages[Head(path)].map.messages, Tail(path))
    ELSE None

is_leaf(messages, path) ==
    slot(messages, path).tag = "Some" /\ slot(messages, path).v.tag = "Left"
is_branch(messages, path) ==
    slot(messages, path).tag = "Some" /\ slot(messages, path).v.tag = "Right"

\* The JSON value at a path of object keys, None when there is none
RECURSIVE value_at(_, _)
value_at(map, path) ==
    IF Head(path) \notin DOMAIN map THEN None
    ELSE IF Len(path) = 1 THEN Some(map[Head(path)])
    ELSE IF map[Head(path)].tag = "Object"
    THEN value_at(map[Head(path)].map, Tail(path))
    ELSE None

\* The trie that holds one leaf only, at `path`, owned by `file_path`
RECURSIVE only_leaf(_, _)
only_leaf(path, file_path) ==
    IF Len(path) = 1
    THEN Head(path) :> Left(file_path)
    ELSE Head(path) :> Right(only_leaf(Tail(path), file_path))

messages_now == message_handler.extracted_messages.messages
conflicts_now == message_handler.conflicts
is_empty_handler == messages_now = EmptyMap /\ conflicts_now = <<>>

\* The files that own a leaf in or under a trie node
RECURSIVE owners(_)
owners(node) ==
    IF node.tag = "Left"
    THEN { node.info.file_path }
    ELSE UNION { owners(node.map.messages[k]) : k \in DOMAIN node.map.messages }

\* The usages whose leaf slot holds a Leaf owned by file_path: what
\* remove_messages(messages, file_path) is about to drop
leaves_owned(messages, file_path) ==
    { u \in Usages :
        LET found == slot(messages, leaf_path(u[1], u[2])) IN
        /\ found.tag = "Some"
        /\ found.v.tag = "Left"
        /\ found.v.info.file_path = file_path }

\* The leaves of a trie, each as <<path, owner>>
RECURSIVE owned_leaves(_)
owned_leaves(messages) ==
    UNION { IF messages[k].tag = "Left"
            THEN { << << k >>, messages[k].info.file_path >> }
            ELSE { << << k >> \o l[1], l[2] >> : l \in owned_leaves(messages[k].map.messages) }
          : k \in DOMAIN messages }

\* The paths of the Leaves of a trie
leaf_paths(messages) == { l[1] : l \in owned_leaves(messages) }

\* The paths of the Branches of a trie
RECURSIVE branch_paths(_)
branch_paths(messages) ==
    UNION { IF messages[k].tag = "Left"
            THEN {}
            ELSE { << k >> } \cup
                 { << k >> \o q : q \in branch_paths(messages[k].map.messages) }
          : k \in DOMAIN messages }

\* The paths of a JSON object that end in a string or in an empty object
RECURSIVE json_paths(_)
json_paths(map) ==
    UNION { IF map[k].tag = "Object" /\ DOMAIN map[k].map # {}
            THEN { << k >> \o q : q \in json_paths(map[k].map) }
            ELSE { << k >> }
          : k \in DOMAIN map }

\* p is a proper prefix of the path q
is_under(p, q) == Len(p) < Len(q) /\ SubSeq(q, 1, Len(p)) = p

\* The catalog holds a non-object value at a namespace segment of the leaf
\* path, where the lookup has a deeper segment to go to
no_object_on_the_way(catalog, path) ==
    \E n \in 1..(Len(path) - 1) :
        LET at == value_at(catalog, SubSeq(path, 1, n))
        IN  at.tag = "Some" /\ at.v.tag # "Object"

\* The (namespace, key) positions the conflict list reports
conflict_positions(conflicts) ==
    { << conflicts[i].namespace, conflicts[i].key >> : i \in 1..Len(conflicts) }

\* A conflict record that names two different files
two_files(conflict) == conflict.files[1] # conflict.files[2]

\* The tracked files other than `path` that contribute the usage u
other_contributors(t, path, u) == { q \in (DOMAIN t) \ {path} : u \in t[q] }

-----------------------------------------------------------------------------
(* MessageHandler (crates/cli/src/messages.rs) *)

\* MessageHandler::new: the catalog is loaded, nothing is extracted yet
new(source_messages) ==
    [source_messages |-> source_messages,
     extracted_messages |-> [messages |-> EmptyMap],
     conflicts |-> <<>>]

\* Mutant of leaf_where_branch: the conflict is pushed but the leaf is replaced
\* by the branch the walk wanted
leaf_where_branch_overwrites(current, info, namespace, part, file_path) ==
    [messages |-> insert(current, part, Right(EmptyMap)),
     conflicts |-> << NamespaceConflict(namespace, part, << info.file_path, file_path >>) >>]

\* The Either::Left arm of the namespace walk: a leaf where a branch is
\* expected.  One conflict is pushed and the call returns; the map is untouched.
leaf_where_branch(current, info, namespace, part, file_path) ==
    [messages |-> current,
     conflicts |-> << NamespaceConflict(namespace, part, << info.file_path, file_path >>) >>]

\* The "check for existing key" of the final insert: a conflict is pushed
\* when the slot already holds a Left, whoever owns it
existing_key_conflict(current, namespace, key, file_path) ==
    IF key \in DOMAIN current /\ current[key].tag = "Left"
    THEN << NamespaceConflict(namespace, key,
                              << current[key].info.file_path, file_path >>) >>
    ELSE <<>>

\* The body of add_extracted_message from `current`, with `parts` still to
\* walk: the map that replaces `current` and the conflicts pushed
RECURSIVE walk(_, _, _, _, _)
walk(current, parts, namespace, key, file_path) ==
    IF parts = <<>>
    THEN [messages |-> insert(current, key, Left(file_path)),
          conflicts |-> existing_key_conflict(current, namespace, key, file_path)]
    ELSE LET part == Head(parts)
             \* entry(part).or_insert_with(|| Either::Right(Box::default()))
             entry == IF part \in DOMAIN current THEN current[part] ELSE Right(EmptyMap)
         IN  IF entry.tag = "Left"
             THEN leaf_where_branch(current, entry.info, namespace, part, file_path)
             ELSE LET r == walk(entry.map.messages, Tail(parts), namespace, key, file_path)
                  IN  [messages |-> insert(current, part, Right(r.messages)),
                       conflicts |-> r.conflicts]

add_extracted_message(self, namespace, key, file_path) ==
    LET r == walk(self.extracted_messages.messages, split(namespace),
                  namespace, key, file_path)
    IN  [self EXCEPT !.extracted_messages = [messages |-> r.messages],
                     !.conflicts = self.conflicts \o r.conflicts]

get_conflicts(self) == self.conflicts

\* add_extracted_messages with the iteration order of its HashMap and
\* HashSets given as `order`, a sequence of <<namespace, key>>
RECURSIVE add_in_order(_, _, _)
add_in_order(self, order, file_path) ==
    IF order = <<>>
    THEN self
    ELSE add_in_order(add_extracted_message(self, Head(order)[1], Head(order)[2], file_path),
                      Tail(order), file_path)

\* lookup_in_source: the loop over the parts of full_key, at index i (from 1)
RECURSIVE lookup_loop(_, _, _, _)
lookup_loop(current, parts, i, key) ==
    IF i > Len(parts) THEN None
    ELSE IF i = Len(parts)
    THEN (IF key \in DOMAIN current THEN Some(current[key]) ELSE None)
    ELSE IF parts[i] \notin DOMAIN current THEN None
    ELSE IF current[parts[i]].tag # "Object" THEN None
    ELSE lookup_loop(current[parts[i]].map, parts, i + 1, key)

lookup_in_source(self, full_key, key) ==
    lookup_loop(self.source_messages, split(full_key), 1, key)

\* The key looked up for a leaf: the prefix handed down is the key of the
\* map that holds the leaf
full_key_of(prefix, key) ==
    IF prefix.tag = "Some" THEN format_dot(prefix.v, key) ELSE key

RECURSIVE merge_recursive(_, _, _)
merge_recursive(self, message_map, prefix) ==
    [key \in DOMAIN message_map.messages |->
        LET value == message_map.messages[key] IN
        IF value.tag = "Left"
        THEN LET full_key == full_key_of(prefix, key)
                 source_value == lookup_in_source(self, full_key, key)
             IN  IF source_value.tag = "Some"
                 THEN source_value.v
                 ELSE String(full_key)
        ELSE Object(merge_recursive(self, value.map, Some(key)))]

merge_messages(self) == merge_recursive(self, self.extracted_messages, None)

\* Mutant of remove_messages: a branch is kept even when cleaning emptied it
RECURSIVE remove_messages_keeps_empty_branches(_, _)
remove_messages_keeps_empty_branches(messages, file_path) ==
    LET kept == { k \in DOMAIN messages :
                    messages[k].tag = "Left" => messages[k].info.file_path # file_path }
    IN  [k \in kept |->
            IF messages[k].tag = "Left"
            THEN messages[k]
            ELSE Right(remove_messages_keeps_empty_branches(messages[k].map.messages,
                                                            file_path))]

\* Mutant of remove_messages: a branch is tested for emptiness before it is
\* cleaned, not after
RECURSIVE remove_messages_tests_before_cleaning(_, _)
remove_messages_tests_before_cleaning(messages, file_path) ==
    LET kept == { k \in DOMAIN messages :
                    IF messages[k].tag = "Left"
                    THEN messages[k].info.file_path # file_path
                    ELSE DOMAIN messages[k].map.messages # {} }
    IN  [k \in kept |->
            IF messages[k].tag = "Left"
            THEN messages[k]
            ELSE Right(remove_messages_tests_before_cleaning(messages[k].map.messages,
                                                             file_path))]

\* remove_messages: retain of the leaves of other files and of the branches
\* that are not empty once cleaned
RECURSIVE remove_messages(_, _)
remove_messages(messages, file_path) ==
    LET cleaned == [k \in DOMAIN messages |->
                        IF messages[k].tag = "Left"
                        THEN messages[k]
                        ELSE Right(remove_messages(messages[k].map.messages, file_path))]
        kept == { k \in DOMAIN messages :
                    IF messages[k].tag = "Left"
                    THEN messages[k].info.file_path # file_path
                    ELSE DOMAIN cleaned[k].map.messages # {} }
    IN  [k \in kept |-> cleaned[k]]

\* Mutant of retain_conflicts: only the file that came second is looked at
retain_conflicts_second_file_only(conflicts, file_path) ==
    SelectSeq(conflicts, LAMBDA c : c.files[Len(c.files)] # file_path)

\* conflicts.retain(|conflict| !conflict.files.contains(file_path))
retain_conflicts(conflicts, file_path) ==
    SelectSeq(conflicts, LAMBDA c : \A i \in 1..Len(c.files) : c.files[i] # file_path)

\* Mutant of remove_messages_for_file: the namespaces the file's leaves were
\* under are dropped from the loaded catalog too
remove_messages_for_file_prunes_catalog(self, file_path) ==
    LET gone == { leaf_path(u[1], u[2])[1] :
                    u \in leaves_owned(self.extracted_messages.messages, file_path) }
    IN  [source_messages |-> [k \in (DOMAIN self.source_messages) \ gone |->
                                  self.source_messages[k]],
         extracted_messages |-> [messages |-> remove_messages(self.extracted_messages.messages,
                                                              file_path)],
         conflicts |-> retain_conflicts(self.conflicts, file_path)]

remove_messages_for_file(self, file_path) ==
    [self EXCEPT
        !.extracted_messages = [messages |-> remove_messages(self.extracted_messages.messages,
                                                             file_path)],
        !.conflicts = retain_conflicts(self.conflicts, file_path)]

\* The file at output_path: the JSON object last written in full
Json(m) == [tag |-> "Json", value |-> m]

\* write_merged_messages, the write succeeding: the content of output_path
write_merged_messages(self) == Json(merge_messages(self))

-----------------------------------------------------------------------------
(* Inputs *)

\* Catalogs loaded by MessageHandler::new
CatalogEmpty == EmptyMap
CatalogNested ==
    (<<"a">> :> Object((<<"k">> :> String(<<"v1">>))
                       @@ (<<"b">> :> Object(<<"k">> :> String(<<"v2">>)))))
    @@ (<<"b">> :> Object(<<"k">> :> String(<<"v3">>)))
\* A catalog with a string where the namespace "a" expects an object:
\* {"a": "s", "b": {"k": "v3"}}
CatalogScalar ==
    (<<"a">> :> String(<<"s">>))
    @@ (<<"b">> :> Object(<<"k">> :> String(<<"v3">>)))
Catalogs == { CatalogEmpty, CatalogNested, CatalogScalar }

\* The (namespace, key) pairs of an extraction result (HashMap<String, HashSet<String>>)
pairs_of(messages) ==
    { p \in Namespaces \X Keys : p[1] \in DOMAIN messages /\ p[2] \in messages[p[1]] }

\* The extraction result (merge_by_namespace) of a file holding the usages P
messages_of(P) ==
    [ns \in { p[1] : p \in P } |-> { p[2] : p \in { q \in P : q[1] = ns } }]

ExtractionResults == { messages_of(P) : P \in SUBSET Usages }

\* The orders in which `for (namespace, keys) in messages { for key in keys`
\* can visit the pairs: any order of the namespaces, any order of each key set
iteration_orders(messages) ==
    LET P == pairs_of(messages)
        n == Cardinality(P)
    IN  { o \in [1..n -> P] :
            /\ \A i, j \in 1..n : i # j => o[i] # o[j]
            /\ \A i, j, l \in 1..n :
                  (i < j /\ j < l /\ o[i][1] = o[l][1]) => o[j][1] = o[i][1] }

\* Every extraction result with every order its iteration can take
Iterations ==
    UNION { { [messages |-> m, order |-> o] : o \in iteration_orders(m) } :
            m \in ExtractionResults }

-----------------------------------------------------------------------------
(* Calls on the handler *)

Init ==
    /\ \E source \in Catalogs :
          /\ message_handler = new(source)
          /\ output = Json(source)
    /\ tracked = <<>>
    /\ last = [op |-> "new"]
    /\ visitor = [translation_functions |-> EmptyMap, current_scope |-> <<>>]
    /\ open = <<>>
    /\ declared = <<>>
    /\ not_watching

AddExtractedMessage ==
    \E usage \in Usages, file_path \in Files :
        LET namespace == usage[1]
            key == usage[2]
            after == add_extracted_message(message_handler, namespace, key, file_path)
        IN
        /\ Len(after.conflicts) <= MaxConflicts
        /\ message_handler' = after
        /\ last' = [op |-> "add_extracted_message", namespace |-> namespace,
                    key |-> key, file_path |-> file_path]
        /\ UNCHANGED loop_vars
        /\ UNCHANGED <<output, tracked, visitor, open, declared>>

AddExtractedMessages ==
    \E it \in Iterations, file_path \in Files :
        LET after == add_in_order(message_handler, it.order, file_path) IN
        /\ Len(after.conflicts) <= MaxConflicts
        /\ message_handler' = after
        /\ last' = [op |-> "add_extracted_messages", order |-> it.order,
                    file_path |-> file_path]
        /\ UNCHANGED loop_vars
        /\ UNCHANGED <<output, tracked, visitor, open, declared>>

RemoveMessagesForFile ==
    \E file_path \in Files :
        /\ message_handler' = remove_messages_for_file(message_handler, file_path)
        /\ last' = [op |-> "remove_messages_for_file", file_path |-> file_path,
                    removed |-> leaves_owned(messages_now, file_path)]
        /\ UNCHANGED loop_vars
        /\ UNCHANGED <<output, tracked, visitor, open, declared>>

Next ==
    \/ AddExtractedMessage
    \/ AddExtractedMessages
    \/ RemoveMessagesForFile

Spec == Init /\ [][Next]_vars

-----------------------------------------------------------------------------
(* Watch-mode event handlers (crates/cli/src/watch.rs), every extraction and *)
(* every write succeeding                                                    *)

untrack(t, path) == [p \in (DOMAIN t) \ {path} |-> t[p]]

\* process_file_change: the translations are added under the path, then the
\* merged catalog is written
process_file_change(self, order, path) == add_in_order(self, order, path)

ProcessFileChange ==
    \E path \in Files, it \in Iterations :
        LET after == process_file_change(message_handler, it.order, path) IN
        /\ Len(after.conflicts) <= MaxConflicts
        /\ message_handler' = after
        /\ output' = write_merged_messages(after)
        /\ tracked' = insert(tracked, path, pairs_of(it.messages))
        /\ last' = [op |-> "process_file_change", path |-> path, result |-> "Ok"]
        /\ UNCHANGED loop_vars
        /\ UNCHANGED <<visitor, open, declared>>

\* process_file_removal: the path's leaves and conflicts are removed, then
\* the merged catalog is written
process_file_removal(self, path) == remove_messages_for_file(self, path)

ProcessFileRemoval ==
    \E path \in Files :
        LET after == process_file_removal(message_handler, path) IN
        /\ message_handler' = after
        /\ output' = write_merged_messages(after)
        /\ tracked' = untrack(tracked, path)
        /\ last' = [op |-> "process_file_removal", path |-> path, result |-> "Ok"]
        /\ UNCHANGED loop_vars
        /\ UNCHANGED <<visitor, open, declared>>

WatchNext ==
    \/ ProcessFileChange
    \/ ProcessFileRemoval

WatchSpec == Init /\ [][WatchNext]_vars

-----------------------------------------------------------------------------
(* The watch function (crates/cli/src/watch.rs:39-110).  The thread that     *)
(* calls watch scans the pattern once and then receives from the channel;   *)
(* the watcher's thread runs the callback, which only sends.  The           *)
(* MessageHandler is borrowed mutably by the calling thread alone, so the   *)
(* handling of one received result is one step.                             *)

MaxEvents == 3         \* results the watcher callback sends during one watch

\* The paths of the two source files as glob::glob(pattern) yields them:
\* relative to the current directory, in alphabetical order
glob == << "A.tsx", "B.tsx" >>

\* current_dir.join(relative): the absolute path notify reports for a file
current_dir_join ==
    ("A.tsx" :> "/cwd/A.tsx") @@ ("B.tsx" :> "/cwd/B.tsx")

\* A path of the watched directory the pattern does not match, and a path
\* that does not start with current_dir
UnmatchedPath == "/cwd/README.md"
OutsidePath == "/mnt/A.tsx"
EventPaths == { current_dir_join[f] : f \in Files } \cup { UnmatchedPath, OutsidePath }

\* path.strip_prefix(&current_dir)
strip_prefix(path) ==
    CASE \E f \in Files : current_dir_join[f] = path ->
             Some(CHOOSE f \in Files : current_dir_join[f] = path)
      [] path = UnmatchedPath -> Some("README.md")
      [] OTHER -> None

\* glob_pattern.matches_path(relative_path)
matches_path(relative_path) == relative_path \in Files

\* The file a path string names: the relative and the absolute string of a
\* file name the same file
file_of(path) == IF path \in Files THEN path ELSE strip_prefix(path).v

\* What can be at the path of a source file
Absent == [tag |-> "Absent"]
Unreadable == [tag |-> "Unreadable"]       \* a file read_to_string fails on
Unparsable == [tag |-> "Unparsable"]       \* a file the parser gives up on
Source(messages) == [tag |-> "Source", messages |-> messages]

is_file(file) == file.tag # "Absent"

\* What each file can hold
ContentsOf ==
    ("A.tsx" :> { Source(messages_of({ << <<"a">>, <<"k">> >> })),
                  Source(messages_of({ << <<"a">>, <<"b">> >> })),
                  Unreadable, Unparsable })
    @@ ("B.tsx" :> { Source(messages_of({ << <<"a", DOT, "b">>, <<"k">> >> })) })

Ok(v) == [tag |-> "Ok", v |-> v]
Err == [tag |-> "Err"]

\* extract_translations: an error when the file cannot be read; the parse
\* errors of an unparsable file are printed and the empty program the parser
\* returns is visited
extract_translations(file) ==
    CASE file.tag = "Source" -> Ok(file.messages)
      [] file.tag = "Unparsable" -> Ok(EmptyMap)
      [] OTHER -> Err

\* The file at output_path after a failed fs::write that had already
\* created (truncated) it
Truncated == [tag |-> "Truncated"]

\* fs::write(output_path, json): the file holds json; or the file cannot be
\* created and is left alone; or it is created, which truncates it, and
\* writing the bytes fails
fs_write(file, json) ==
    { [result |-> "Ok", file |-> Json(json)],
      [result |-> "Err", file |-> file],
      [result |-> "Err", file |-> Truncated] }

\* The outcomes of write_merged_messages(output_path)?
write_merged_messages_to(self, file) == fs_write(file, merge_messages(self))

Outcome(result, failure, self, file) ==
    [result |-> result, failure |-> failure, message_handler |-> self, output |-> file]

\* The outcomes of process_file_change(path, message_handler, output_path)
process_file_change_outcomes(self, file, path, out) ==
    LET translations == extract_translations(file) IN
    IF translations.tag = "Err"
    THEN { Outcome("Err", "extract", self, out) }
    ELSE UNION {
           LET after == add_in_order(self, order, path) IN
           { Outcome(w.result, IF w.result = "Err" THEN "write" ELSE "none", after, w.file) :
               w \in write_merged_messages_to(after, out) } :
           order \in iteration_orders(translations.v) }

\* The outcomes of process_file_removal(path, message_handler, output_path)
process_file_removal_outcomes(self, path, out) ==
    LET after == remove_messages_for_file(self, path) IN
    { Outcome(w.result, IF w.result = "Err" THEN "write" ELSE "none", after, w.file) :
        w \in write_merged_messages_to(after, out) }

\* Lines 67-73: the files the pattern matches are processed in glob's order
\* under the paths glob yields; the first failure ends the scan
RECURSIVE initial_scan(_, _, _, _)
initial_scan(entries, files, self, out) ==
    IF entries = <<>>
    THEN { Outcome("Ok", "none", self, out) }
    ELSE IF ~ is_file(files[Head(entries)])
    THEN initial_scan(Tail(entries), files, self, out)
    ELSE UNION {
           IF o.result = "Err"
           THEN { o }
           ELSE initial_scan(Tail(entries), files, o.message_handler, o.output) :
           o \in process_file_change_outcomes(self, files[Head(entries)], Head(entries), out) }

\* Lines 67-76: the scan, then the write of the initial state
scan_and_write(files, self, out) ==
    UNION {
      IF o.result = "Err"
      THEN { o }
      ELSE { Outcome(w.result, IF w.result = "Err" THEN "write" ELSE "none",
                     o.message_handler, w.file) :
               w \in write_merged_messages_to(o.message_handler, o.output) } :
      o \in initial_scan(glob, files, self, out) }

\* The callback of the watcher (lines 50-54): the result is sent
callback_sends_in_front(channel, res) == << res >> \o channel
callback(channel, res) == Append(channel, res)

\* Lines 103-105, error propagated instead of logged
after_result_returns(result) == IF result = "Err" THEN "returned" ELSE "loop"
\* Lines 103-105: an error of the handlers is logged and the loop goes on
after_result(result) == "loop"

\* Lines 79-106 for the one path of a received event
handle_path(kind, path, files, self, out) ==
    IF strip_prefix(path) = None
    THEN { Outcome("Err", "strip_prefix", self, out) }
    ELSE IF ~ matches_path(strip_prefix(path).v)
    THEN { Outcome("Ok", "none", self, out) }
    ELSE CASE kind \in { "Create", "Modify" } ->
                  IF is_file(files[file_of(path)])
                  THEN process_file_change_outcomes(self, files[file_of(path)], path, out)
                  ELSE { Outcome("Ok", "none", self, out) }
           [] kind = "Remove" -> process_file_removal_outcomes(self, path, out)
           [] OTHER -> { Outcome("Ok", "none", self, out) }

\* watch has created the watcher and is about to scan
LoopInit ==
    /\ message_handler = new(CatalogNested)
    /\ output = Json(CatalogNested)
    /\ tracked = <<>>
    /\ last = [op |-> "new"]
    /\ visitor = [translation_functions |-> EmptyMap, current_scope |-> <<>>]
    /\ open = <<>>
    /\ declared = <<>>
    /\ rx = <<>>
    /\ pc = "scan"
    /\ disk \in [Files -> { Absent } \cup UNION { ContentsOf[f] : f \in Files }]
    /\ \A f \in Files : disk[f] \in { Absent } \cup ContentsOf[f]
    /\ sent = 0
    /\ GLOBAL_FILE_MAP = <<>>

InitialScan ==
    /\ pc = "scan"
    /\ \E o \in scan_and_write(disk, message_handler, output) :
          /\ message_handler' = o.message_handler
          /\ output' = o.output
          /\ pc' = IF o.result = "Err" THEN "returned" ELSE "loop"
          /\ last' = [op |-> "scan", result |-> o.result, failure |-> o.failure]
    /\ UNCHANGED <<rx, disk, sent, GLOBAL_FILE_MAP>>
    /\ UNCHANGED <<tracked, visitor, open, declared>>

\* Something happens to a path of the watched directory and the watcher's
\* thread calls the callback with the event
FileEvent ==
    /\ pc \in { "scan", "loop" }
    /\ sent < MaxEvents
    /\ \E f \in Files :
          \/ \E file \in ContentsOf[f] \ { disk[f] } :
                /\ disk' = [disk EXCEPT ![f] = file]
                /\ rx' = callback(rx, [tag |-> "Ok", seq |-> sent + 1,
                                       kind |-> IF is_file(disk[f]) THEN "Modify" ELSE "Create",
                                       path |-> current_dir_join[f]])
          \/ /\ is_file(disk[f])
             /\ disk' = [disk EXCEPT ![f] = Absent]
             /\ rx' = callback(rx, [tag |-> "Ok", seq |-> sent + 1, kind |-> "Remove",
                                    path |-> current_dir_join[f]])
    /\ sent' = sent + 1
    /\ UNCHANGED <<message_handler, output, tracked, last, visitor, open, declared,
                   pc, GLOBAL_FILE_MAP>>

\* An event that changes no source file (a read, a path the pattern does not
\* match, a path outside the current directory), or an error of the watcher
OtherEvent ==
    /\ pc \in { "scan", "loop" }
    /\ sent < MaxEvents
    /\ \E res \in { [tag |-> "Err", seq |-> sent + 1] }
                  \cup { [tag |-> "Ok", seq |-> sent + 1, kind |-> "Access",
                          path |-> current_dir_join[f]] : f \in Files }
                  \cup { [tag |-> "Ok", seq |-> sent + 1, kind |-> "Modify", path |-> p] :
                           p \in { UnmatchedPath, OutsidePath } } :
          rx' = callback(rx, res)
    /\ sent' = sent + 1
    /\ UNCHANGED <<message_handler, output, tracked, last, visitor, open, declared,
                   pc, disk, GLOBAL_FILE_MAP>>

\* One turn of `for Event { kind, paths, .. } in rx.into_iter().flatten()`:
\* the oldest result is received; an Err is dropped by flatten
HandleEvent ==
    /\ pc = "loop"
    /\ rx # <<>>
    /\ LET res == Head(rx) IN
       /\ rx' = Tail(rx)
       /\ IF res.tag = "Err"
          THEN /\ last' = [op |-> "event", seq |-> res.seq, res |-> res,
                           result |-> "Ok", failure |-> "none"]
               /\ UNCHANGED <<message_handler, output, pc>>
          ELSE \E o \in handle_path(res.kind, res.path, disk, message_handler, output) :
                  /\ message_handler' = o.message_handler
                  /\ output' = o.output
                  /\ pc' = IF o.failure = "strip_prefix" THEN "returned"
                                                          ELSE after_result(o.result)
                  /\ last' = [op |-> "event", seq |-> res.seq, res |-> res,
                              result |-> o.result, failure |-> o.failure]
    /\ UNCHANGED <<disk, sent, GLOBAL_FILE_MAP>>
    /\ UNCHANGED <<tracked, visitor, open, declared>>

LoopNext ==
    \/ InitialScan
    \/ FileEvent
    \/ OtherEvent
    \/ HandleEvent

LoopSpec == LoopInit /\ [][LoopNext]_vars

\* watch starts on a project whose two source files can be read and parsed,
\* and the loop takes its turn whenever a result is waiting
FairLoopInit ==
    /\ LoopInit
    /\ \A f \in Files : disk[f].tag = "Source"
    /\ disk["A.tsx"].messages = messages_of({ << <<"a">>, <<"k">> >> })

FairLoopSpec == FairLoopInit /\ [][LoopNext]_vars /\ WF_vars(HandleEvent)

-----------------------------------------------------------------------------
(* The labels-file merger (crates/cli_old/src/watch.rs, with the map of      *)
(* crates/cli/src/file_map.rs and the start-up of crates/cli/src/main.rs):   *)
(* every <component>.labels.json file is one key of the output.  Paths are   *)
(* canonical already: fs::canonicalize of a path that exists is that path.   *)

\* The labels files of the watched directory, two of them of the component
\* "a", and a file that is no labels file
LabelsPaths == { "/w/a.labels.json", "/w/x/a.labels.json", "/w/b.labels.json" }
OtherPath == "/w/notes.txt"

\* path.file_name() ends with "labels.json"
ends_with_labels_json(path) == path \in LabelsPaths

\* FILENAME_REGEX.captures(file_name).get(1)
component ==
    ("/w/a.labels.json" :> "a") @@ ("/w/x/a.labels.json" :> "a")
    @@ ("/w/b.labels.json" :> "b")

\* The JSON values a labels file can hold
LabelsContents == { String(<<"v1">>), String(<<"v2">>) }
Labels(contents) == [tag |-> "Labels", contents |-> contents]

FileMap(name, file_path, contents) ==
    [name |-> name, file_path |-> file_path, contents |-> contents]

\* fs::canonicalize(path): an error when nothing is at the path
canonicalize(files, path) ==
    IF path \in DOMAIN files /\ files[path].tag # "Absent" THEN Ok(path) ELSE Err

\* map.iter().find(|(_, val)| val.file_path == absolute_path): the keys found
find(map, absolute_path) == { k \in DOMAIN map : map[k].file_path = absolute_path }

\* map.remove(key)
remove(map, key) == [k \in (DOMAIN map) \ { key } |-> map[k]]

\* create_initial_map over the labels files found, none of them a duplicate
create_initial_map(files) ==
    LET found == { p \in LabelsPaths : files[p].tag # "Absent" }
    IN  [name \in { component[p] : p \in found } |->
            LET p == CHOOSE q \in found : component[q] = name
            IN  FileMap(name, canonicalize(files, p).v, files[p].contents)]

\* merged_data: every key of the map with its contents
merged_data(map) == [k \in DOMAIN map |-> map[k].contents]

\* The Create/Modify branch for the one path of the event: the map after
\* it, or a panic of an expect
create_or_modify(map, files, path) ==
    IF ~ ends_with_labels_json(path)
    THEN Ok(map)
    ELSE IF canonicalize(files, path) = Err
    THEN Err                                      \* "Unable to get absolute path"
    ELSE IF find(map, path) # {}
    THEN Ok([map EXCEPT ![CHOOSE k \in find(map, path) : TRUE].contents =
                            files[path].contents])
    ELSE IF component[path] \in DOMAIN map
    THEN Ok(map)                                  \* warning: component exists already
    ELSE Ok(insert(map, component[path],
                   FileMap(component[path], path, files[path].contents)))

\* The Remove branch for the one path of the event
remove_branch(map, files, path) ==
    IF ~ ends_with_labels_json(path)
    THEN Ok(map)
    ELSE IF canonicalize(files, path) = Err
    THEN Ok(map)                                  \* debug message, continue
    ELSE IF find(map, path) # {}
    THEN Ok(remove(map, CHOOSE k \in find(map, path) : TRUE))
    ELSE Ok(map)

\* The merger has built the map from the labels files and written the output
LabelsInit ==
    /\ message_handler = new(CatalogEmpty)
    /\ tracked = <<>>
    /\ last = [op |-> "create_initial_map"]
    /\ visitor = [translation_functions |-> EmptyMap, current_scope |-> <<>>]
    /\ open = <<>>
    /\ declared = <<>>
    /\ rx = <<>>
    /\ sent = 0
    /\ pc = "watching"
    /\ disk \in [LabelsPaths -> { Absent } \cup { Labels(c) : c \in LabelsContents }]
    /\ disk["/w/x/a.labels.json"] = Absent
    /\ GLOBAL_FILE_MAP = create_initial_map(disk)
    /\ output = Json(merged_data(GLOBAL_FILE_MAP))

\* A labels file is written or removed
LabelsFileChange ==
    /\ pc = "watching"
    /\ \E p \in LabelsPaths, file \in { Absent } \cup { Labels(c) : c \in LabelsContents } :
          /\ file # disk[p]
          /\ disk' = [disk EXCEPT ![p] = file]
    /\ UNCHANGED <<message_handler, output, tracked, last, visitor, open, declared,
                   rx, pc, sent, GLOBAL_FILE_MAP>>

\* check_event(event, output_path) for an event of one path; the map lock
\* is taken before the map is read and released after the output is written
CheckEvent ==
    /\ pc = "watching"
    /\ \E kind \in { "Create", "Modify", "Remove", "Access" },
          path \in LabelsPaths \cup { OtherPath } :
          IF kind = "Access"
          THEN /\ last' = [op |-> "check_event", kind |-> kind, path |-> path,
                           result |-> "Ok"]
               /\ UNCHANGED <<GLOBAL_FILE_MAP, output, pc>>
          ELSE LET map == IF kind = "Remove"
                          THEN remove_branch(GLOBAL_FILE_MAP, disk, path)
                          ELSE create_or_modify(GLOBAL_FILE_MAP, disk, path)
               IN  IF map = Err
                   THEN /\ pc' = "panicked"
                        /\ last' = [op |-> "check_event", kind |-> kind, path |-> path,
                                    result |-> "panic"]
                        /\ UNCHANGED <<GLOBAL_FILE_MAP, output>>
                   ELSE \E w \in fs_write(output, merged_data(map.v)) :
                           /\ GLOBAL_FILE_MAP' = map.v
                           /\ output' = w.file
                           /\ pc' = IF w.result = "Err" THEN "panicked" ELSE "watching"
                           /\ last' = [op |-> "check_event", kind |-> kind, path |-> path,
                                       result |-> IF w.result = "Err" THEN "panic" ELSE "Ok"]
    /\ UNCHANGED <<message_handler, tracked, visitor, open, declared, rx, disk, sent>>

LabelsNext ==
    \/ LabelsFileChange
    \/ CheckEvent

LabelsSpec == LabelsInit /\ [][LabelsNext]_vars

-----------------------------------------------------------------------------
(* TranslationFunctionVisitor (crates/resolver/src/visitor.rs).              *)
(* The syntax tree is visited in document order.  A function node is         *)
(* entered, its body visited, and left; a variable declaration and a call    *)
(* expression are handled by their visit_ methods, which do not walk into    *)
(* the node: what is inside a declaration's initializer or a call's callee   *)
(* and arguments is part of the node handed to the method and is never       *)
(* visited on its own.                                                       *)

MaxDepth == 3          \* function nodes nested in the visited file
MaxDeclarators == 1    \* declarators of one variable declaration
MaxBindings == 2       \* translation functions the visited file declares

COLON == ":"

\* Names of the file's named functions: Outer is declared at the top level,
\* Inner inside another function
FunctionNames == { "Outer", "Inner" }
Identifiers == { "t" }                     \* names the file binds and calls
HookNamespaces == { <<"ns">> }
MessageKeys == { <<"k1">>, <<"k2">> }

\* Expressions: an identifier stands for any computed expression
Identifier(name) == [kind |-> "Identifier", name |-> name]
StringLiteral(value) == [kind |-> "StringLiteral", value |-> value]
\* { namespace: <value> }
ObjectExpression(value) ==
    [kind |-> "ObjectExpression",
     properties |-> << [key |-> "namespace", value |-> value] >>]
StaticMemberExpression(object) ==
    [kind |-> "StaticMemberExpression", object |-> object, property |-> "rich"]
\* callee(arguments...)
CallExpression(callee, arguments) ==
    [kind |-> "CallExpression", callee |-> callee, arguments |-> arguments]
AwaitExpression(argument) == [kind |-> "AwaitExpression", argument |-> argument]
\* id = init
VariableDeclarator(id, init) == [id |-> id, init |-> init]
BindingIdentifier(name) == [kind |-> "BindingIdentifier", name |-> name]
ObjectPattern == [kind |-> "ObjectPattern"]

TranslationFunction(namespace, usages) == [namespace |-> namespace, usages |-> usages]

enter_scope(self, name) == [self EXCEPT !.current_scope = Append(@, name)]

\* Vec::pop: nothing happens on an empty stack
exit_scope(self) ==
    [self EXCEPT !.current_scope = IF @ = <<>> THEN <<>> ELSE SubSeq(@, 1, Len(@) - 1)]

\* Vec<String>::join(".")
RECURSIVE join(_)
join(names) ==
    IF names = <<>> THEN <<>>
    ELSE IF Len(names) = 1 THEN << names[1] >>
    ELSE << names[1], DOT >> \o join(Tail(names))

current_scope_name(self) == join(self.current_scope)

\* format!("{}:{}", scope, name)
format_colon(scope, name) == scope \o << COLON >> \o << name >>

\* obj.properties.iter().find_map(..): the first property `namespace` with a
\* string literal value
RECURSIVE find_namespace(_)
find_namespace(properties) ==
    IF properties = <<>> THEN None
    ELSE IF Head(properties).key = "namespace"
            /\ Head(properties).value.kind = "StringLiteral"
    THEN Some(Head(properties).value.value)
    ELSE find_namespace(Tail(properties))

extract_namespace_from_translations_call(call_expr, is_get_translations) ==
    IF call_expr.arguments = <<>> THEN None
    ELSE LET arg == Head(call_expr.arguments) IN
         IF is_get_translations
         THEN (IF arg.kind = "ObjectExpression" THEN find_namespace(arg.properties) ELSE None)
         ELSE (IF arg.kind = "StringLiteral" THEN Some(arg.value) ELSE None)

\* The matches of the body of `for decl in &it.declarations`, each ending in
\* `continue` when it fails: the decl_id and namespace of the translation
\* function the declarator declares, if any
declared_binding(decl) ==
    LET awaited == decl.init.tag = "Some" /\ decl.init.v.kind = "AwaitExpression"
        call_expr == IF awaited THEN decl.init.v.argument ELSE decl.init.v
        is_get_translations == awaited
    IN  IF decl.init.tag = "None" THEN None
        ELSE IF call_expr.kind # "CallExpression" THEN None
        ELSE IF call_expr.callee.kind # "Identifier" THEN None
        ELSE IF call_expr.callee.name \notin { "useTranslations", "getTranslations" } THEN None
        ELSE LET namespace ==
                    extract_namespace_from_translations_call(call_expr, is_get_translations)
             IN  IF namespace.tag = "None" THEN None
                 ELSE IF decl.id.kind # "BindingIdentifier" THEN None
                 ELSE Some([decl_id |-> decl.id.name, namespace |-> namespace.v])

\* The body of `for decl in &it.declarations`: the visitor after one declarator
visit_declarator(self, decl) ==
    LET binding == declared_binding(decl) IN
    IF binding.tag = "None" THEN self
    ELSE LET scope == current_scope_name(self)
             key == format_colon(scope, binding.v.decl_id)
         IN  [self EXCEPT !.translation_functions =
                 insert(@, key, TranslationFunction(binding.v.namespace, {}))]

\* The keys under which a declaration inserts a translation function
declared_keys(self, declarations) ==
    { format_colon(current_scope_name(self), declared_binding(declarations[i]).v.decl_id) :
        i \in { j \in 1..Len(declarations) : declared_binding(declarations[j]).tag = "Some" } }

RECURSIVE visit_variable_declaration(_, _)
visit_variable_declaration(self, declarations) ==
    IF declarations = <<>> THEN self
    ELSE visit_variable_declaration(visit_declarator(self, Head(declarations)),
                                    Tail(declarations))

\* Mutant of visit_call_expression: a call through an identifier without a
\* translation function records one, under the identifier's name as namespace
visit_call_expression_binds_unknown(self, node) ==
    LET callee == IF node.callee.kind = "StaticMemberExpression"
                  THEN node.callee.object
                  ELSE node.callee
    IN  IF callee.kind # "Identifier" THEN self
        ELSE IF node.arguments = <<>> THEN self
        ELSE IF Head(node.arguments).kind # "StringLiteral" THEN self
        ELSE LET key == format_colon(current_scope_name(self), callee.name)
                 known == IF key \in DOMAIN self.translation_functions
                          THEN self.translation_functions[key]
                          ELSE TranslationFunction(<< callee.name >>, {})
             IN  [self EXCEPT !.translation_functions =
                     insert(@, key, TranslationFunction(known.namespace,
                                known.usages \cup { Head(node.arguments).value }))]

\* The two arms of visit_call_expression share their body: the identifier
\* looked up is the callee or the object of the static member callee
visit_call_expression(self, node) ==
    LET callee == IF node.callee.kind = "StaticMemberExpression"
                  THEN node.callee.object
                  ELSE node.callee
    IN  IF callee.kind # "Identifier" THEN self
        ELSE LET scope == current_scope_name(self)
                 key == format_colon(scope, callee.name)
             IN  IF key \notin DOMAIN self.translation_functions THEN self
                 ELSE IF node.arguments = <<>> THEN self
                 ELSE IF Head(node.arguments).kind # "StringLiteral" THEN self
                 ELSE [self EXCEPT !.translation_functions[key].usages =
                          @ \cup { Head(node.arguments).value }]

\* The orders in which translation_functions.values() can be iterated, as
\* sequences of keys
values_orders(self) ==
    LET keys == DOMAIN self.translation_functions
        n == Cardinality(keys)
    IN  { o \in [1..n -> keys] : \A i, j \in 1..n : i # j => o[i] # o[j] }

\* Mutant of merge_value: a namespace already in the result is overwritten
merge_value_overwrites(result, value) ==
    insert(result, value.namespace, value.usages)

\* The body of `for value in self.translation_functions.values()`:
\* extend the namespace's set, or insert a new one
merge_value(result, value) ==
    IF value.namespace \in DOMAIN result
    THEN [result EXCEPT ![value.namespace] = @ \cup value.usages]
    ELSE insert(result, value.namespace, value.usages)

\* merge_by_namespace with the iteration order of the hash map given
RECURSIVE merge_values(_, _, _)
merge_values(self, order, result) ==
    IF order = <<>> THEN result
    ELSE merge_values(self, Tail(order),
                      merge_value(result, self.translation_functions[Head(order)]))

\* merge_by_namespace: the iteration order does not show in the result
merge_by_namespace(self) ==
    merge_values(self, CHOOSE order \in values_orders(self) : TRUE, EmptyMap)

-----------------------------------------------------------------------------
(* The nodes a visited file can hold *)

\* First arguments of a hook call: none, a string literal, { namespace: "ns" },
\* { namespace: ns } and a computed expression
HookArguments ==
    { <<>>, << Identifier("ns") >> }
    \cup { << StringLiteral(ns) >> : ns \in HookNamespaces }
    \cup { << ObjectExpression(StringLiteral(ns)) >> : ns \in HookNamespaces }
    \cup { << ObjectExpression(Identifier("ns")) >> }

HookCalls ==
    { CallExpression(Identifier(hook), arguments) :
        hook \in { "useTranslations", "getTranslations" }, arguments \in HookArguments }

\* t("k"), t.rich("k"), t(k), t()
TranslatorCalls ==
    { CallExpression(callee, arguments) :
        callee \in { Identifier(t) : t \in Identifiers }
                   \cup { StaticMemberExpression(Identifier(t)) : t \in Identifiers },
        arguments \in { <<>>, << Identifier("k") >> }
                      \cup { << StringLiteral(k) >> : k \in MessageKeys } }

\* format(t("k")): a call inside another call's arguments
NestingCalls ==
    { CallExpression(Identifier("format"), << inner >>) :
        inner \in { c \in TranslatorCalls :
                      c.callee.kind = "Identifier" /\ c.arguments # <<>>
                      /\ Head(c.arguments).kind = "StringLiteral" } }

\* (function () { .. })(): a callee that is neither an identifier nor a member
OtherCalls == { CallExpression([kind |-> "FunctionExpression"], <<>>) }

CallExpressions == TranslatorCalls \cup NestingCalls \cup OtherCalls

\* () => t("k"): a function bound to a variable, with the calls of its body
ArrowFunctionExpression(body) == [kind |-> "ArrowFunctionExpression", body |-> body]

Declarators ==
    { VariableDeclarator(BindingIdentifier(t), Some(hook)) :
        t \in Identifiers, hook \in HookCalls }
    \cup { VariableDeclarator(BindingIdentifier(t), Some(AwaitExpression(hook))) :
             t \in Identifiers, hook \in HookCalls }
    \cup { VariableDeclarator(ObjectPattern,
                              Some(CallExpression(Identifier("useTranslations"),
                                                  << StringLiteral(ns) >>))) :
             ns \in HookNamespaces }
    \cup { VariableDeclarator(BindingIdentifier("label"), Some(c)) :
             c \in { x \in TranslatorCalls :
                       x.arguments = << StringLiteral(<<"k1">>) >> } }
    \cup { VariableDeclarator(BindingIdentifier("Row"), Some(ArrowFunctionExpression(<< c >>))) :
             c \in { x \in TranslatorCalls :
                       x.callee.kind = "Identifier"
                       /\ x.arguments = << StringLiteral(<<"k2">>) >> } }
    \cup { VariableDeclarator(BindingIdentifier("x"), None),
           VariableDeclarator(BindingIdentifier("x"), Some(Identifier("y"))),
           VariableDeclarator(BindingIdentifier("x"), Some(AwaitExpression(Identifier("y")))) }

VariableDeclarations ==
    UNION { [1..n -> Declarators] : n \in 1..MaxDeclarators }

-----------------------------------------------------------------------------
(* The visit of a file *)

\* The names of the named functions being visited, outermost first
lexical_scope ==
    LET named == SelectSeq(open, LAMBDA node : node.id.tag = "Some")
    IN  [i \in 1..Len(named) |-> named[i].id.v]

VisitInit ==
    /\ message_handler = new(CatalogEmpty)
    /\ output = Json(CatalogEmpty)
    /\ tracked = <<>>
    /\ last = [op |-> "new"]
    /\ visitor = [translation_functions |-> EmptyMap, current_scope |-> <<>>]
    /\ open = <<>>
    /\ declared = <<>>
    /\ not_watching

\* visit_function up to walk_function: a named function pushes its name
EnterFunction ==
    \E id \in { None } \cup { Some(name) : name \in FunctionNames } :
        /\ Len(open) < MaxDepth
        /\ id.tag = "Some" => (id.v = "Outer" <=> open = <<>>)
        /\ visitor' = IF id.tag = "Some" THEN enter_scope(visitor, id.v) ELSE visitor
        /\ open' = Append(open, [id |-> id, entry |-> visitor.current_scope])
        /\ last' = [op |-> "enter_function"]
        /\ UNCHANGED loop_vars
        /\ UNCHANGED <<message_handler, output, tracked, declared>>

\* visit_function after walk_function: exit_scope, whatever the function
ExitFunction ==
    /\ open # <<>>
    /\ visitor' = exit_scope(visitor)
    /\ open' = SubSeq(open, 1, Len(open) - 1)
    /\ last' = [op |-> "visit_function"]
    /\ UNCHANGED loop_vars
    /\ UNCHANGED <<message_handler, output, tracked, declared>>

VisitVariableDeclaration ==
    \E declarations \in VariableDeclarations :
        /\ visitor' = visit_variable_declaration(visitor, declarations)
        /\ Cardinality(DOMAIN visitor'.translation_functions) <= MaxBindings
        /\ declared' = [key \in (DOMAIN declared) \cup declared_keys(visitor, declarations) |->
                            IF key \in declared_keys(visitor, declarations)
                            THEN lexical_scope
                            ELSE declared[key]]
        /\ last' = [op |-> "visit_variable_declaration"]
        /\ UNCHANGED loop_vars
        /\ UNCHANGED <<message_handler, output, tracked, open>>

VisitCallExpression ==
    \E node \in CallExpressions :
        /\ visitor' = visit_call_expression(visitor, node)
        /\ last' = [op |-> "visit_call_expression"]
        /\ UNCHANGED loop_vars
        /\ UNCHANGED <<message_handler, output, tracked, open, declared>>

VisitNext ==
    \/ EnterFunction
    \/ ExitFunction
    \/ VisitVariableDeclaration
    \/ VisitCallExpression

VisitSpec == VisitInit /\ [][VisitNext]_vars

-----------------------------------------------------------------------------
(* merge_by_namespace on the translation functions a visit can have recorded *)

BindingKeys == { << COLON, "t" >>, << "Outer", COLON, "t" >>,
                 << "Outer", DOT, "Inner", COLON, "t" >> }
MergeNamespaces == HookNamespaces \cup { <<"other">> }

RecordedFunctions ==
    UNION { [keys -> { TranslationFunction(ns, usages) :
                         ns \in MergeNamespaces, usages \in SUBSET MessageKeys }] :
            keys \in SUBSET BindingKeys }

MergeInit ==
    /\ message_handler = new(CatalogEmpty)
    /\ output = Json(CatalogEmpty)
    /\ tracked = <<>>
    /\ last = [op |-> "new"]
    /\ \E fns \in RecordedFunctions :
          visitor = [translation_functions |-> fns, current_scope |-> <<>>]
    /\ open = <<>>
    /\ declared = <<>>
    /\ not_watching

MergeByNamespace ==
    \E order \in values_orders(visitor) :
        /\ last' = [op |-> "merge_by_namespace", order |-> order,
                    result |-> merge_values(visitor, order, EmptyMap)]
        /\ UNCHANGED loop_vars
        /\ UNCHANGED <<message_handler, output, tracked, visitor, open, declared>>

MergeNext == MergeByNamespace

MergeSpec == MergeInit /\ [][MergeNext]_vars

-----------------------------------------------------------------------------
(* Vocabulary of the properties of the visit *)

\* The step handled the call expression `node`
call_step(node) ==
    /\ last'.op = "visit_call_expression"
    /\ visitor' = visit_call_expression(visitor, node)

\* The step handled the variable declaration `declarations`
declaration_step(declarations) ==
    /\ last'.op = "visit_variable_declaration"
    /\ visitor' = visit_variable_declaration(visitor, declarations)
    /\ DOMAIN declared' = (DOMAIN declared) \cup declared_keys(visitor, declarations)

\* The identifier a call goes through: its callee, or the object of its
\* static member callee
callee_identifier(node) ==
    IF node.callee.kind = "StaticMemberExpression" THEN node.callee.object ELSE node.callee

\* The key of the translation function a call through an identifier looks up
lookup_key(self, node) ==
    format_colon(current_scope_name(self), callee_identifier(node).name)

\* The call goes through an identifier with a translation function at the
\* current scope path and has a string literal as first argument
resolves(self, node) ==
    /\ node.kind = "CallExpression"
    /\ callee_identifier(node).kind = "Identifier"
    /\ lookup_key(self, node) \in DOMAIN self.translation_functions
    /\ node.arguments # <<>>
    /\ Head(node.arguments).kind = "StringLiteral"

\* The call expressions of the tree of a call expression: itself and those
\* among its arguments
calls_in_call(node) ==
    { node } \cup { node.arguments[i] :
                      i \in { j \in 1..Len(node.arguments) :
                                node.arguments[j].kind = "CallExpression" } }

\* The call expressions of the tree of a declarator's initializer
calls_in_declarator(decl) ==
    IF decl.init.tag = "None" THEN {}
    ELSE IF decl.init.v.kind = "CallExpression" THEN calls_in_call(decl.init.v)
    ELSE IF decl.init.v.kind = "ArrowFunctionExpression"
    THEN UNION { calls_in_call(decl.init.v.body[i]) : i \in 1..Len(decl.init.v.body) }
    ELSE IF decl.init.v.kind = "AwaitExpression" /\ decl.init.v.argument.kind = "CallExpression"
    THEN calls_in_call(decl.init.v.argument)
    ELSE {}

\* The hook call of a declarator `id = hook(..)` or `id = await hook(..)`
\* that binds an identifier, None for any other declarator
hook_call(decl) ==
    LET init == decl.init
        call == IF init.tag = "Some" /\ init.v.kind = "AwaitExpression"
                THEN init.v.argument
                ELSE init.v
    IN  IF /\ init.tag = "Some"
           /\ decl.id.kind = "BindingIdentifier"
           /\ call.kind = "CallExpression"
           /\ call.callee.kind = "Identifier"
           /\ call.callee.name \in { "useTranslations", "getTranslations" }
        THEN Some(call)
        ELSE None

\* The namespace a hook call states: a string literal first argument, or the
\* string-valued namespace field of an object literal first argument
static_namespace(call) ==
    IF call.arguments = <<>> THEN None
    ELSE IF Head(call.arguments).kind = "StringLiteral"
    THEN Some(Head(call.arguments).value)
    ELSE IF Head(call.arguments).kind = "ObjectExpression"
    THEN find_namespace(Head(call.arguments).properties)
    ELSE None

\* The first argument of a hook call is missing or a computed expression
no_static_argument(call) ==
    call.arguments = <<>> \/ Head(call.arguments).kind = "Identifier"

-----------------------------------------------------------------------------
(* Claims *)

\* C1: after add_extracted_message(namespace, key, file) on an empty handler,
\* merge_messages() holds at the path namespace-segments + key the catalog
\* value stored at that same full path when the catalog has one, and
\* otherwise the string "namespace.key" of the full dotted path.
C1_MergedValueIsCatalogOrFullPath ==
    [][ (is_empty_handler /\ last'.op = "add_extracted_message") =>
          LET path == leaf_path(last'.namespace, last'.key)
              in_catalog == value_at(message_handler'.source_messages, path)
          IN  value_at(merge_messages(message_handler'), path) =
                IF in_catalog.tag = "Some"
                THEN in_catalog
                ELSE Some(String(format_dot(last'.namespace, last'.key)))
      ]_vars

\* C2: from an empty handler, add(ns, key, A) gives the single leaf ns.key
\* owned by A; add(ns, key, B) with B # A on that state leaves exactly one
\* conflict record, for (ns, key), whose files hold both A and B;
\* remove_messages_for_file(A) on that state leaves no conflict while
\* merge_messages() still holds ns.key.
C2_ConflictOnSecondFileClearedByRemoval ==
    [][ /\ (is_empty_handler /\ last'.op = "add_extracted_message") =>
              /\ message_handler'.extracted_messages.messages =
                    only_leaf(leaf_path(last'.namespace, last'.key), last'.file_path)
              /\ message_handler'.conflicts = <<>>
        /\ \A u \in Usages, A \in Files :
              ( /\ messages_now = only_leaf(leaf_path(u[1], u[2]), A)
                /\ conflicts_now = <<>>
                /\ last'.op = "add_extracted_message"
                /\ last'.namespace = u[1] /\ last'.key = u[2]
                /\ last'.file_path # A ) =>
              /\ Len(message_handler'.conflicts) = 1
              /\ message_handler'.conflicts[1].namespace = u[1]
              /\ message_handler'.conflicts[1].key = u[2]
              /\ { A, last'.file_path } \subseteq
                    { message_handler'.conflicts[1].files[i] :
                        i \in 1..Len(message_handler'.conflicts[1].files) }
              /\ message_handler'.extracted_messages.messages =
                    only_leaf(leaf_path(u[1], u[2]), last'.file_path)
        /\ \A u \in Usages, A \in Files, B \in Files :
              ( /\ A # B
                /\ messages_now = only_leaf(leaf_path(u[1], u[2]), B)
                /\ Len(conflicts_now) = 1
                /\ conflicts_now[1].namespace = u[1]
                /\ conflicts_now[1].key = u[2]
                /\ { A, B } \subseteq { conflicts_now[1].files[i] :
                                          i \in 1..Len(conflicts_now[1].files) }
                /\ last'.op = "remove_messages_for_file"
                /\ last'.file_path = A ) =>
              /\ get_conflicts(message_handler') = <<>>
              /\ value_at(merge_messages(message_handler'),
                          leaf_path(u[1], u[2])).tag = "Some"
      ]_vars

\* C2 witness: the second add has acted: one leaf, owned by the second file,
\* and one conflict record naming the first and the second file.
C2_Witness ==
    /\ last.op = "add_extracted_message"
    /\ \E A \in Files \ {last.file_path} :
          /\ conflicts_now =
                << NamespaceConflict(last.namespace, last.key, << A, last.file_path >>) >>
          /\ messages_now = only_leaf(leaf_path(last.namespace, last.key), last.file_path)

\* C3: removal is the inverse of a change: when process_file_removal(path)
\* follows process_file_change(path), every key that another tracked file
\* still contributes, and that the trie held before the removal, remains in
\* the trie and in the written catalog.
C3_RemovalKeepsKeysOfOtherFiles ==
    [][ ( /\ last.op = "process_file_change"
          /\ last'.op = "process_file_removal"
          /\ last'.path = last.path ) =>
          \A q \in DOMAIN tracked' : \A u \in tracked'[q] :
              is_leaf(messages_now, leaf_path(u[1], u[2])) =>
                /\ is_leaf(message_handler'.extracted_messages.messages,
                           leaf_path(u[1], u[2]))
                /\ value_at(output'.value, leaf_path(u[1], u[2])).tag = "Some"
      ]_vars

\* C4: a change event is idempotent: when process_file_change(path) runs
\* twice in a row with the same extraction result, the second run leaves the
\* written catalog and the conflict list as the first run left them.
C4_SecondChangeAddsNothing ==
    [][ ( /\ last.op = "process_file_change"
          /\ last'.op = "process_file_change"
          /\ last'.path = last.path
          /\ tracked'[last'.path] = tracked[last.path] ) =>
          /\ output' = output
          /\ get_conflicts(message_handler') = get_conflicts(message_handler)
      ]_vars

\* C5: a change event replaces the file's previous contribution: a pair that
\* the earlier processing of the path contributed, that the new extraction
\* result lacks and that no other tracked file contributes, is absent from
\* the trie and from the written catalog after process_file_change(path).
C5_ChangeDropsStalePairs ==
    [][ (last'.op = "process_file_change" /\ last'.path \in DOMAIN tracked) =>
          \A u \in tracked[last'.path] \ tracked'[last'.path] :
              other_contributors(tracked', last'.path, u) = {} =>
                /\ ~ is_leaf(message_handler'.extracted_messages.messages,
                             leaf_path(u[1], u[2]))
                /\ value_at(output'.value, leaf_path(u[1], u[2])) = None
      ]_vars

\* C6: conflicts are recomputed, not accumulated: after any sequence of
\* change and removal events, a same-key conflict is reported for
\* (namespace, key) if and only if at least two distinct tracked files
\* contribute (namespace, key) in their latest extraction result.
C6_ConflictIffTwoContributors ==
    \A u \in Usages :
        (\E i \in 1..Len(conflicts_now) :
            conflicts_now[i].namespace = u[1] /\ conflicts_now[i].key = u[2])
        <=> Cardinality({ f \in DOMAIN tracked : u \in tracked[f] }) >= 2

\* C7: inserting a leaf where a branch exists is a conflict and never an
\* overwrite: when add_extracted_message's final slot holds a Branch with a
\* leaf of another file, a NamespaceConflict is recorded and the Branch with
\* all its descendants is still there afterwards.
C7_LeafNeverOverwritesBranch ==
    [][ ( /\ last'.op = "add_extracted_message"
          /\ is_branch(messages_now, leaf_path(last'.namespace, last'.key))
          /\ owners(slot(messages_now, leaf_path(last'.namespace, last'.key)).v)
                # { last'.file_path } ) =>
          /\ Len(message_handler'.conflicts) = Len(conflicts_now) + 1
          /\ slot(message_handler'.extracted_messages.messages,
                  leaf_path(last'.namespace, last'.key))
               = slot(messages_now, leaf_path(last'.namespace, last'.key))
      ]_vars

\* The namespace segments of `namespace` at which the walk finds a Leaf
leaf_on_the_way(messages, namespace) ==
    { i \in 1..Len(segments(namespace)) :
        is_leaf(messages, SubSeq(segments(namespace), 1, i)) }

\* C8: when add_extracted_message(namespace, key, newFile) meets a Leaf at a
\* namespace segment, it pushes exactly one conflict {namespace, key: that
\* segment, files: [owner of the Leaf, newFile]} and leaves the trie exactly
\* as it was.
C8_LeafOnTheWayAbortsInsert ==
    [][ ( /\ last'.op = "add_extracted_message"
          /\ leaf_on_the_way(messages_now, last'.namespace) # {} ) =>
          \A i \in leaf_on_the_way(messages_now, last'.namespace) :
            LET on_the_way == SubSeq(segments(last'.namespace), 1, i)
                owner == slot(messages_now, on_the_way).v.info.file_path
            IN  /\ message_handler'.conflicts =
                      Append(conflicts_now,
                             NamespaceConflict(last'.namespace,
                                               segments(last'.namespace)[i],
                                               << owner, last'.file_path >>))
                /\ message_handler'.extracted_messages = message_handler.extracted_messages
      ]_vars

\* C8 witness: add_extracted_message("a.b", "k", f) has acted on a trie whose
\* slot a.b is a Leaf: the Leaf is still there and the last conflict names
\* the segment "b", the Leaf's owner and f.
C8_Witness ==
    /\ last.op = "add_extracted_message"
    /\ last.namespace = <<"a", DOT, "b">>
    /\ is_leaf(messages_now, << <<"a">>, <<"b">> >>)
    /\ Len(conflicts_now) > 0
    /\ conflicts_now[Len(conflicts_now)] =
          NamespaceConflict(last.namespace, <<"b">>,
                            << slot(messages_now, << <<"a">>, <<"b">> >>).v.info.file_path,
                               last.file_path >>)

\* C9: the conflict list holds at most one record per (namespace, key) pair:
\* no two records that each name two different files are for the same pair.
C9_OneRecordPerPair ==
    \A i, j \in 1..Len(conflicts_now) :
        ( /\ two_files(conflicts_now[i]) /\ two_files(conflicts_now[j])
          /\ conflicts_now[i].namespace = conflicts_now[j].namespace
          /\ conflicts_now[i].key = conflicts_now[j].key ) => i = j

\* C10: the merged catalog is never written to the output path while the
\* conflict list is non-empty: no change or removal event writes the catalog
\* while a conflict between two files is recorded.
C10_NoWriteWhileConflicts ==
    [][ ( /\ last'.op \in { "process_file_change", "process_file_removal" }
          /\ output' = write_merged_messages(message_handler') ) =>
          \A i \in 1..Len(get_conflicts(message_handler')) :
              ~ two_files(get_conflicts(message_handler')[i])
      ]_vars

\* C11: conflicts do not stop merging: when add_extracted_message(ns, key, f)
\* finds the leaf ns.key owned by another file, merge_messages() afterwards
\* holds at that path the catalog value of the path if there is one and the
\* placeholder "ns.key" otherwise, and merge_messages() is the same whatever
\* the conflict list holds.
C11_ConflictsDoNotStopMerging ==
    [][ LET path == leaf_path(last'.namespace, last'.key)
            in_catalog == value_at(message_handler'.source_messages, path)
        IN  ( /\ last'.op = "add_extracted_message"
              /\ is_leaf(messages_now, path)
              /\ slot(messages_now, path).v.info.file_path # last'.file_path ) =>
              /\ value_at(merge_messages(message_handler'), path) =
                    IF in_catalog.tag = "Some"
                    THEN in_catalog
                    ELSE Some(String(format_dot(last'.namespace, last'.key)))
              /\ merge_messages([message_handler' EXCEPT !.conflicts = <<>>]) =
                    merge_messages(message_handler')
      ]_vars

\* C12: the merged output contains exactly the paths that are Leaves of the
\* extracted-message trie; catalog entries that were never extracted are
\* absent from merge_messages().
C12_OutputPathsAreLeafPaths ==
    json_paths(merge_messages(message_handler)) = leaf_paths(messages_now)

\* C13: remove_messages_for_file(f) removes every Leaf owned by f at any
\* depth, keeps every Leaf of another file with its owner, and removes every
\* Branch left without a Leaf under it, which is then absent from
\* merge_messages().
C13_RemovalDropsLeavesAndEmptyBranches ==
    [][ last'.op = "remove_messages_for_file" =>
          LET f == last'.file_path
              after == message_handler'.extracted_messages.messages
          IN  /\ owned_leaves(after) = { l \in owned_leaves(messages_now) : l[2] # f }
              /\ branch_paths(after) =
                    { p \in branch_paths(messages_now) :
                        \E l \in owned_leaves(messages_now) : l[2] # f /\ is_under(p, l[1]) }
              /\ \A p \in branch_paths(messages_now) \ branch_paths(after) :
                    value_at(merge_messages(message_handler'), p) = None
      ]_vars

\* C13 witness: the removal has dropped the file's leaf a.b.k, two branches
\* deep, with the emptied branch a.b, and has kept another file's leaf a.k.
C13_Witness ==
    /\ last.op = "remove_messages_for_file"
    /\ << <<"a", DOT, "b">>, <<"k">> >> \in last.removed
    /\ \E other \in Files \ { last.file_path } :
          messages_now = only_leaf(<< <<"a">>, <<"k">> >>, other)

\* C14: the loaded catalog is read-only after MessageHandler::new: no call
\* changes source_messages, so a key that remove_messages_for_file has removed
\* and that is extracted again, by any file, is merged to the value it had
\* before the removal.
C14_CatalogIsReadOnly ==
    [][ /\ message_handler'.source_messages = message_handler.source_messages
        /\ last'.op = "remove_messages_for_file" =>
              \A u \in last'.removed, again_by \in Files :
                  LET path == leaf_path(u[1], u[2])
                      again == add_extracted_message(message_handler', u[1], u[2], again_by)
                  IN  /\ is_leaf(again.extracted_messages.messages, path)
                      /\ value_at(merge_messages(again), path) =
                            value_at(merge_messages(message_handler), path)
      ]_vars

\* C14 witness: a removal has dropped the leaf a.k, whose catalog value is
\* "v1", and the catalog still holds that value.
C14_Witness ==
    /\ last.op = "remove_messages_for_file"
    /\ << <<"a">>, <<"k">> >> \in last.removed
    /\ ~ is_leaf(messages_now, << <<"a">>, <<"k">> >>)
    /\ value_at(message_handler.source_messages, << <<"a">>, <<"k">> >>) =
          Some(String(<<"v1">>))

\* C15: when the catalog holds a non-object value at a namespace segment of a
\* Leaf's path, where a deeper segment is expected, the lookup is a no-match
\* and merge_messages() holds the placeholder "namespace.key" for that Leaf.
C15_NoObjectOnTheWayGivesPlaceholder ==
    \A u \in Usages :
        LET path == leaf_path(u[1], u[2]) IN
        ( /\ is_leaf(messages_now, path)
          /\ no_object_on_the_way(message_handler.source_messages, path) ) =>
            value_at(merge_messages(message_handler), path) =
                Some(String(format_dot(u[1], u[2])))

\* C16: scope push and pop are paired for every function node: when the
\* visit of a function, named or anonymous, finishes, the scope stack is the
\* stack at the function's entry.
C16_ScopeStackRestored ==
    [][ (last'.op = "visit_function" /\ Len(open') < Len(open)) =>
          visitor'.current_scope = open[Len(open)].entry
      ]_vars

\* C17: binding lookup is scope-exact: a call through an identifier
\* contributes a key only when the translation function it finds was
\* declared under the scope path of the call, the names of the named
\* functions the call is nested in.
C17_LookupIsScopeExact ==
    [][ \A node \in CallExpressions :
          (call_step(node) /\ resolves(visitor, node)) =>
              declared[lookup_key(visitor, node)] = lexical_scope
      ]_vars

\* C18: a declarator `id = hook(..)` or `id = await hook(..)`, the hook being
\* useTranslations or getTranslations, produces a translation function for id
\* with the stated namespace whenever the first argument is a string literal
\* or an object literal with a string-valued namespace field.
C18_BothArgumentFormsBothShapes ==
    [][ \A declarations \in VariableDeclarations :
          declaration_step(declarations) =>
              \A i \in 1..Len(declarations) :
                  LET hook == hook_call(declarations[i]) IN
                  (hook.tag = "Some" /\ static_namespace(hook.v).tag = "Some") =>
                      LET key == format_colon(current_scope_name(visitor),
                                              declarations[i].id.name)
                      IN  /\ key \in DOMAIN visitor'.translation_functions
                          /\ visitor'.translation_functions[key].namespace =
                                static_namespace(hook.v).v
      ]_vars

\* C19: every call expression of the tree is considered, wherever it occurs:
\* when a call in the tree of a visited call expression or of a visited
\* declaration goes through an identifier with a translation function at the
\* current scope path and has a string literal as first argument, the
\* literal is in the extraction result under that function's namespace.
C19_EveryCallIsConsidered ==
    [][ LET considered(c) ==
                resolves(visitor, c) =>
                    LET ns == visitor.translation_functions[lookup_key(visitor, c)].namespace
                    IN  /\ ns \in DOMAIN merge_by_namespace(visitor')
                        /\ Head(c.arguments).value \in merge_by_namespace(visitor')[ns]
        IN  /\ \A node \in CallExpressions :
                  call_step(node) => \A c \in calls_in_call(node) : considered(c)
            /\ \A declarations \in VariableDeclarations :
                  (declaration_step(declarations)
                   /\ declared_keys(visitor, declarations) = {}) =>
                      \A i \in 1..Len(declarations) :
                          \A c \in calls_in_declarator(declarations[i]) : considered(c)
      ]_vars

\* C20: a hook declaration whose first argument is missing or a computed
\* expression creates no binding, and a later call through the declared
\* identifier contributes no key.
C20_UnresolvedNamespaceBindsNothing ==
    [][ \A declarations \in VariableDeclarations :
          ( /\ declaration_step(declarations)
            /\ \A i \in 1..Len(declarations) :
                  /\ hook_call(declarations[i]).tag = "Some"
                  /\ no_static_argument(hook_call(declarations[i]).v) ) =>
              /\ visitor' = visitor
              /\ \A i \in 1..Len(declarations), k \in MessageKeys :
                    LET later == CallExpression(Identifier(declarations[i].id.name),
                                                << StringLiteral(k) >>)
                    IN  merge_by_namespace(visit_call_expression(visitor', later)) =
                            merge_by_namespace(visitor')
      ]_vars

\* C21: while the visited file has held no hook declaration that binds, the
\* extraction result is the empty mapping, whatever calls, functions and
\* other declarations have been visited.
C21_NoHookNoKeys ==
    (DOMAIN declared = {}) => merge_by_namespace(visitor) = EmptyMap

\* C21 witness: calls through t have been visited inside a function of a
\* file without a hook declaration.
C21_Witness ==
    /\ DOMAIN declared = {}
    /\ last.op = "visit_call_expression"
    /\ open # <<>>
    /\ merge_by_namespace(visitor) = EmptyMap

\* C22: merge_by_namespace folds bindings by namespace: whatever the order
\* of iteration, the result has one entry per distinct namespace of the
\* recorded translation functions, and each entry is the union of the usages
\* of every function with that namespace.
C22_FoldByNamespace ==
    last.op = "merge_by_namespace" =>
        LET fns == visitor.translation_functions IN
        /\ DOMAIN last.result = { fns[k].namespace : k \in DOMAIN fns }
        /\ \A ns \in DOMAIN last.result :
              last.result[ns] =
                  UNION { fns[k].usages : k \in { x \in DOMAIN fns : fns[x].namespace = ns } }

\* C22 witness: two functions of the namespace "ns" with different usages and
\* one of another namespace have been merged; k1, used through both, is there once.
C22_Witness ==
    /\ last.op = "merge_by_namespace"
    /\ Len(last.order) = 3
    /\ DOMAIN last.result = MergeNamespaces
    /\ last.result[<<"ns">>] = { <<"k1">>, <<"k2">> }
    /\ \E a, b \in DOMAIN visitor.translation_functions :
          /\ a # b
          /\ visitor.translation_functions[a] = TranslationFunction(<<"ns">>, { <<"k1">> })
          /\ visitor.translation_functions[b] =
                TranslationFunction(<<"ns">>, { <<"k1">>, <<"k2">> })

\* A step of the watch loop that has received a result from the channel
handling_step == pc = "loop" /\ sent' = sent /\ rx' # rx

\* The handling step has called process_file_change or process_file_removal
\* and the call has failed in extraction or in the write
handler_failed == last'.op = "event" /\ last'.failure \in { "extract", "write" }

\* The path strings the handler holds: owners of Leaves and files of conflicts
strings_recorded ==
    { l[2] : l \in owned_leaves(messages_now) }
    \cup UNION { { conflicts_now[i].files[1], conflicts_now[i].files[2] } :
                 i \in 1..Len(conflicts_now) }

\* The usages whose Leaf is owned by a string that names the file f
leaves_of_file(messages, f) ==
    UNION { leaves_owned(messages, p) : p \in { f, current_dir_join[f] } }

\* C23: in watch mode, when the handling of a received event fails in
\* extraction or in the write of the output, the loop is still running
\* after that step and has taken only that event from the channel; every
\* event waiting on the channel at that moment is handled later (unless
\* watch returns for a later reason).
C23_FailureDoesNotStopTheLoop ==
    /\ [][ (handling_step /\ handler_failed) => (pc' = "loop" /\ rx' = Tail(rx)) ]_vars
    /\ \A n \in 1..MaxEvents :
          ( /\ pc = "loop"
            /\ last.op = "event"
            /\ last.failure \in { "extract", "write" }
            /\ \E i \in 1..Len(rx) : rx[i].seq = n )
          ~> ( (last.op = "event" /\ last.seq = n) \/ pc = "returned" )

\* C23 witness: the extraction of a changed file has just failed, the loop
\* is running and a later event for a matching path waits on the channel.
C23_Witness ==
    /\ pc = "loop"
    /\ last.op = "event"
    /\ last.result = "Err"
    /\ last.failure = "extract"
    /\ rx # <<>>
    /\ Head(rx).tag = "Ok"
    /\ strip_prefix(Head(rx).path) # None
    /\ matches_path(strip_prefix(Head(rx).path).v)

\* C24: the results are received in the order the callback sent them, one
\* per step of the loop; the MessageHandler and the output file change only
\* in a step of the thread that called watch (the scan, or the handling of
\* the oldest waiting result, mutation and write together), and a step in
\* which the callback sends changes neither.
C24_OneEventAtATimeInChannelOrder ==
    [][ /\ (sent' # sent) =>
              /\ message_handler' = message_handler
              /\ output' = output
              /\ Len(rx') = Len(rx) + 1
              /\ SubSeq(rx', 1, Len(rx)) = rx
        /\ (message_handler' # message_handler \/ output' # output) =>
              /\ sent' = sent
              /\ \/ pc = "scan"
                 \/ /\ pc = "loop"
                    /\ rx # <<>>
                    /\ rx' = Tail(rx)
                    /\ last'.op = "event"
                    /\ last'.res = Head(rx)
        /\ handling_step =>
              /\ rx' = Tail(rx)
              /\ last'.seq = (sent - Len(rx)) + 1
      ]_vars

\* C24 witness: the second result sent has just been handled, it changed a
\* file's Leaves and the output, and a third one waits on the channel.
C24_Witness ==
    /\ last.op = "event"
    /\ last.seq = 2
    /\ last.result = "Ok"
    /\ last.res.tag = "Ok"
    /\ last.res.kind = "Modify"
    /\ leaves_owned(messages_now, last.res.path) # {}
    /\ output = write_merged_messages(message_handler)
    /\ Len(rx) = 1

\* C25: when the write step of process_file_change or process_file_removal
\* fails while an event is handled, the output file is what it was before
\* the event and the handler reports an error.
C25_FailedWriteLeavesOutputUntouched ==
    [][ (handling_step /\ last'.op = "event" /\ last'.failure = "write") =>
            (output' = output /\ last'.result = "Err") ]_vars

\* C26: when a create or modify event is handled for a file that has
\* Leaves under the event's path and that cannot be read or parsed any
\* more, watch keeps running, no Leaf of that path remains, the catalog
\* written has none of its keys, and the Leaves of every other path are
\* what they were.
C26_BrokenFileCountsAsEmpty ==
    [][ ( /\ handling_step
          /\ last'.op = "event"
          /\ last'.res.tag = "Ok"
          /\ last'.res.kind \in { "Create", "Modify" }
          /\ last'.res.path \in { current_dir_join[f] : f \in Files }
          /\ disk[file_of(last'.res.path)].tag \in { "Unreadable", "Unparsable" }
          /\ leaves_owned(messages_now, last'.res.path) # {} )
        => LET path == last'.res.path
               after == message_handler'.extracted_messages.messages
           IN  /\ pc' = "loop"
               /\ leaves_owned(after, path) = {}
               /\ output'.tag = "Json" =>
                     \A u \in leaves_owned(messages_now, path) :
                         leaf_path(u[1], u[2]) \notin json_paths(output'.value)
               /\ \A p \in strings_recorded \ { path } :
                     leaves_owned(after, p) = leaves_owned(messages_now, p)
      ]_vars

\* C27: every string the handler holds for a file is the same string: no
\* file is recorded under two strings, no conflict names the same file
\* twice, and the handling of a remove event leaves no Leaf of the removed
\* file, whichever processing created it.
C27_OneStringPerFile ==
    [][ /\ \A p, q \in strings_recorded' : file_of(p) = file_of(q) => p = q
        /\ \A i \in 1..Len(message_handler'.conflicts) :
              file_of(message_handler'.conflicts[i].files[1]) #
                  file_of(message_handler'.conflicts[i].files[2])
        /\ ( /\ handling_step
             /\ last'.op = "event"
             /\ last'.res.tag = "Ok"
             /\ last'.res.kind = "Remove"
             /\ last'.res.path \in { current_dir_join[f] : f \in Files } )
           => leaves_of_file(message_handler'.extracted_messages.messages,
                             file_of(last'.res.path)) = {}
      ]_vars

\* C28: in every state reachable by add_extracted_message,
\* add_extracted_messages and remove_messages_for_file, every Branch of the
\* trie has a Leaf under it: no Branch is empty.
C28_NoEmptyBranch ==
    \A p \in branch_paths(messages_now) :
        \E l \in owned_leaves(messages_now) : is_under(p, l[1])

\* C28 witness: after an insertion has been aborted or has collided, a
\* removal has dropped the leaf a.b.k and with it the branch a.b, and the
\* branch a still holds the leaf a.k.
C28_Witness ==
    /\ last.op = "remove_messages_for_file"
    /\ last.removed = { << <<"a", DOT, "b">>, <<"k">> >> }
    /\ conflicts_now # <<>>
    /\ branch_paths(messages_now) = { << <<"a">> >> }
    /\ is_leaf(messages_now, << <<"a">>, <<"k">> >>)

\* C29: the reported conflicts do not depend on insertion order: two
\* triples inserted with add_extracted_message into an empty handler in
\* either order give the same set of conflicting (namespace, key) positions
\* and the same merged catalog.
C29_OrderDoesNotMatter ==
    [][ (is_empty_handler /\ last'.op = "add_extracted_message") =>
          \A u \in Usages, f \in Files :
              LET this_first == add_extracted_message(message_handler', u[1], u[2], f)
                  this_second ==
                      add_extracted_message(
                          add_extracted_message(message_handler, u[1], u[2], f),
                          last'.namespace, last'.key, last'.file_path)
              IN  /\ conflict_positions(get_conflicts(this_first)) =
                        conflict_positions(get_conflicts(this_second))
                  /\ merge_messages(this_first) = merge_messages(this_second)
      ]_vars

\* C30: after check_event has handled a Remove event for a labels.json path
\* that GLOBAL_FILE_MAP tracks, whether or not the file still exists, the
\* map holds no entry for that path and the output written by that handling
\* has no key of its component.
C30_RemoveEventUntracksTheFile ==
    [][ ( /\ last'.op = "check_event"
          /\ last'.kind = "Remove"
          /\ last'.result = "Ok"
          /\ ends_with_labels_json(last'.path)
          /\ find(GLOBAL_FILE_MAP, last'.path) # {} )
        => /\ find(GLOBAL_FILE_MAP', last'.path) = {}
           /\ component[last'.path] \notin DOMAIN output'.value
      ]_vars

====
